---- MODULE Spec2Model ----
(***************************************************************************)
(* Hierarchical configuration store of ConfigurationManagement: the        *)
(* config_nodes table (shared/schema), the DatabaseStorage operations on   *)
(* it (server/storage) and the Express handlers of /api/config-nodes       *)
(* (server/routes.ts).                                                     *)
(*                                                                         *)
(* Every handler is an async function: it runs synchronously from one      *)
(* awaited database call to the next, and other requests run in between.   *)
(* One step of a request is therefore one database statement together with *)
(* the synchronous code that follows it up to the next awaited statement.  *)
(* createdAt / updatedAt are left out: no handler reads them.              *)
(***************************************************************************)
EXTENDS Integers, Sequences, FiniteSets, TLC

VARIABLES store, nextId, reqs, resp

vars == <<store, nextId, reqs, resp>>

----------------------------------------------------------------------------
(* Bounds of the model *)

\* ids handed out by the serial column: 1..MaxNodes
MaxNodes == 3

\* requests in flight at the same time
MaxInflight == 2

\* frames of deleteConfigNode / nodes of getConfigNodePath a request is followed for
MaxDepth == MaxNodes

----------------------------------------------------------------------------
(* Values *)

\* parent_id IS NULL
NULL == 0 - 1

Users == {"u1", "u2"}

Names == {"n1", "n2"}

NodeTypes == {"territory"}

NAME == "$NAME"

Keys == {"k", NAME}

Vals == {"v1", "v2"}

\* a jsonb object: a finite mapping from keys to values
EmptyMap == [k \in {} |-> "v1"]

Maps == UNION {[D -> Vals] : D \in SUBSET Keys}

\* a merge in which a key already set keeps its value
ObjectAssignKeep(target, source) ==
    [k \in (DOMAIN target) \cup (DOMAIN source) |->
        IF k \in DOMAIN target THEN target[k] ELSE source[k]]

\* Object.assign(target, source): every key of source is written over target
ObjectAssign(target, source) ==
    [k \in (DOMAIN target) \cup (DOMAIN source) |->
        IF k \in DOMAIN source THEN source[k] ELSE target[k]]

\* the name written only where no value is stored under $NAME
SetNameIfAbsent(resolved, name) ==
    [k \in (DOMAIN resolved) \cup {NAME} |->
        IF k \in DOMAIN resolved THEN resolved[k] ELSE name]

\* the name written under the key k
SetNameAsK(resolved, name) ==
    [k \in (DOMAIN resolved) \cup {"k"} |->
        IF k = "k" THEN name ELSE resolved[k]]

\* resolved.$NAME = name
SetName(resolved, name) ==
    [k \in (DOMAIN resolved) \cup {NAME} |->
        IF k = NAME THEN name ELSE resolved[k]]

----------------------------------------------------------------------------
(* The config_nodes table *)

Present(s) == DOMAIN s

\* a row as the table holds it
Row(id, name, parentId, userId, properties, defaults, nodeType) ==
    [id |-> id, name |-> name, parentId |-> parentId, userId |-> userId,
     properties |-> properties, defaults |-> defaults, nodeType |-> nodeType]

\* a table without the foreign key
FkNotChecked(s) == TRUE

\* parent_id REFERENCES config_nodes(id): a non-null parent_id names a row
FkHolds(s) ==
    \A i \in DOMAIN s : s[i].parentId = NULL \/ s[i].parentId \in DOMAIN s

\* db.select().from(configNodes).where(eq(configNodes.id, id)): is there a row
HasNode(s, id) == id \in DOMAIN s

\* db.select().from(configNodes).where(eq(configNodes.parentId, id))
ChildrenOf(s, id) == {c \in DOMAIN s : s[c].parentId = id}

\* insertConfigNodeSchema.parse: name, nodeType (and userId, which the route
\* sets) are required strings; parentId, properties, defaults are optional
InsertSchemaOk(body) ==
    /\ "name" \in DOMAIN body
    /\ "nodeType" \in DOMAIN body

\* parentId: req.body.parentId === null ? undefined : req.body.parentId
InsertParent(body) ==
    IF "parentId" \in DOMAIN body THEN body["parentId"] ELSE NULL

\* the row of db.insert(configNodes).values(node): absent columns take their
\* defaults ('{}' for properties and defaults, NULL for parent_id)
InsertRow(id, userId, body) ==
    Row(id, body["name"], InsertParent(body), userId,
        IF "properties" \in DOMAIN body THEN body["properties"] ELSE EmptyMap,
        IF "defaults" \in DOMAIN body THEN body["defaults"] ELSE EmptyMap,
        body["nodeType"])

\* an update that merges a supplied map into the stored one
UpdateRowMerge(row, updates) ==
    [f \in DOMAIN row |->
        IF f \notin DOMAIN updates THEN row[f]
        ELSE IF f \in {"properties", "defaults"} THEN ObjectAssign(row[f], updates[f])
        ELSE updates[f]]

\* the row after db.update(configNodes).set({...updates}): exactly the keys
\* the parsed body carries are written
UpdateRow(row, updates) ==
    [f \in DOMAIN row |-> IF f \in DOMAIN updates THEN updates[f] ELSE row[f]]

\* the table after a statement, or the table unchanged when the statement
\* violates the foreign key (the statement throws)
InsertInto(s, row) == (row.id :> row) @@ s

\* an update statement without its where clause: every row is written
UpdateInEvery(s, id, updates) == [j \in DOMAIN s |-> UpdateRow(s[j], updates)]

UpdateIn(s, id, updates) == [s EXCEPT ![id] = UpdateRow(s[id], updates)]

DeleteFrom(s, id) == [i \in (DOMAIN s) \ {id} |-> s[i]]

----------------------------------------------------------------------------
(* Requests *)

Slots == 1..MaxInflight

NoBody == [f \in {} |-> NULL]

Idle ==
    [op |-> "idle", caller |-> "u1", id |-> NULL, body |-> NoBody, pc |-> "idle",
     stack |-> <<>>, cur |-> NULL, path |-> <<>>, before |-> {}]

NoResp ==
    [op |-> "none", caller |-> "u1", id |-> NULL, status |-> 0,
     path |-> <<>>, resolved |-> EmptyMap, before |-> {}]

\* the response a handler sends; resp holds the response the latest step sent,
\* NoResp when it sent none
Reply(r, status) ==
    [op |-> r.op, caller |-> r.caller, id |-> r.id, status |-> status,
     path |-> <<>>, resolved |-> EmptyMap, before |-> r.before]

Init ==
    /\ store = [i \in {} |-> Idle]
    /\ nextId = 1
    /\ reqs = [i \in Slots |-> Idle]
    /\ resp = NoResp

----------------------------------------------------------------------------
(* DatabaseStorage.getConfigNodePath and resolveConfiguration *)

\* The while loop of getConfigNodePath run to its end on one table state. A
\* walk that ends reads each row at most once, so a walk that has read as many
\* rows as the table holds and still finds a row is on a parent cycle and never
\* ends: ok is FALSE then, and the call returns nothing.
RECURSIVE WalkFrom(_, _, _, _)
WalkFrom(s, cur, path, fuel) ==
    IF cur = NULL \/ ~HasNode(s, cur) THEN [ok |-> TRUE, path |-> path]
    ELSE IF fuel = 0 THEN [ok |-> FALSE, path |-> path]
    ELSE WalkFrom(s, s[cur].parentId, <<s[cur]>> \o path, fuel - 1)

getConfigNodePath(s, id) == WalkFrom(s, id, <<>>, Cardinality(DOMAIN s))

\* a round that applies the properties first and the defaults over them
ApplyNodeDefaultsLast(resolved, node) ==
    SetName(ObjectAssign(ObjectAssign(resolved, node.properties), node.defaults),
            node.name)

\* one round of the for loop of resolveConfiguration
ApplyNode(resolved, node) ==
    SetName(ObjectAssign(ObjectAssign(resolved, node.defaults), node.properties),
            node.name)

\* a loop that starts every round from an empty accumulator
RECURSIVE ResolveLoopReset(_, _, _)
ResolveLoopReset(resolved, path, from) ==
    IF from > Len(path) THEN resolved
    ELSE ResolveLoopReset(ApplyNode(EmptyMap, path[from]), path, from + 1)

\* the for loop of resolveConfiguration over path[from..]
RECURSIVE ResolveLoop(_, _, _)
ResolveLoop(resolved, path, from) ==
    IF from > Len(path) THEN resolved
    ELSE ResolveLoop(ApplyNode(resolved, path[from]), path, from + 1)

\* a resolver of two passes: the defaults of every node, then the properties
\* of every node
RECURSIVE AssignField(_, _, _, _)
AssignField(resolved, path, from, field) ==
    IF from > Len(path) THEN resolved
    ELSE AssignField(ObjectAssign(resolved, path[from][field]), path, from + 1, field)

ResolveTwoPasses(path) ==
    IF path = <<>> THEN EmptyMap
    ELSE SetName(AssignField(AssignField(EmptyMap, path, 1, "defaults"),
                             path, 1, "properties"),
                 path[Len(path)].name)

\* resolveConfiguration once getConfigNodePath has returned path
ResolvePath(path) == ResolveLoop(EmptyMap, path, 1)

\* resolveConfiguration on one table state (defined when the walk ends)
resolveConfiguration(s, id) == ResolvePath(getConfigNodePath(s, id).path)

\* the nodes whose path, walked on table s, holds node p
OnPathOf(s, p) ==
    {d \in DOMAIN s :
        \E j \in 1..Len(getConfigNodePath(s, d).path) :
            getConfigNodePath(s, d).path[j].id = p}

----------------------------------------------------------------------------
(* Request bodies: a JSON object is a function on the keys it carries *)

Opt(S) == {{}} \cup {{x} : x \in S}

Field(f, xs) == [g \in {h \in {f} : xs # {}} |-> CHOOSE x \in xs : TRUE]

MkBody(name, nodeType, parentId, properties, defaults) ==
    Field("name", name) @@ Field("nodeType", nodeType) @@
    Field("parentId", parentId) @@ Field("properties", properties) @@
    Field("defaults", defaults)

Request(op, caller, id, body) ==
    [Idle EXCEPT !.op = op, !.caller = caller, !.id = id, !.body = body]

Busy(i) == reqs[i].op # "idle"

\* a request ends: its response is sent and its slot is free again
Finish(i, reply) ==
    /\ reqs' = [reqs EXCEPT ![i] = Idle]
    /\ resp' = reply

\* a request goes on to its next awaited statement: no response is sent
Goto(i, r) ==
    /\ reqs' = [reqs EXCEPT ![i] = r]
    /\ resp' = NoResp

----------------------------------------------------------------------------
(* POST /api/config-nodes *)

\* if (nodeData.parentId): a parentId that is absent, null or 0 is not checked
ParentChecked(body) == InsertParent(body) # NULL /\ InsertParent(body) # 0

\* a check of the parent that looks at its existence alone
InvalidParentIfMissing(s, caller, p) == ~HasNode(s, p)

\* !parent || parent.userId !== userId
InvalidParent(s, caller, p) == ~HasNode(s, p) \/ s[p].userId # caller

\* await storage.createConfigNode(nodeData): the serial column takes the next
\* id whether or not the foreign key then accepts the row
Insert(i, r) ==
    LET row == InsertRow(nextId, r.caller, r.body) IN
    /\ nextId' = nextId + 1
    /\ IF FkHolds(InsertInto(store, row))
       THEN /\ store' = InsertInto(store, row)
            /\ Finish(i, [Reply(r, 201) EXCEPT !.id = row.id])
       ELSE /\ UNCHANGED store
            /\ Finish(i, Reply(r, 500))

\* The request arrives and runs to the end of its first awaited statement:
\* a body the schema rejects is answered 400 at once; with a parentId to check
\* the statement is getConfigNode(parentId), otherwise it is the insert
CreateStart(i, caller, body) ==
    /\ ~Busy(i)
    /\ LET r == Request("create", caller, NULL, body) IN
       IF ~InsertSchemaOk(body)
       THEN /\ resp' = Reply(r, 400)
            /\ UNCHANGED <<store, nextId, reqs>>
       ELSE IF ParentChecked(body)
       THEN /\ IF InvalidParent(store, caller, InsertParent(body))
               THEN /\ resp' = Reply(r, 400)
                    /\ UNCHANGED reqs
               ELSE Goto(i, [r EXCEPT !.pc = "insert"])
            /\ UNCHANGED <<store, nextId>>
       ELSE Insert(i, r)

\* the insert of a create whose parent passed the check
CreateInsert(i) ==
    /\ reqs[i].op = "create" /\ reqs[i].pc = "insert"
    /\ Insert(i, reqs[i])

----------------------------------------------------------------------------
(* PATCH /api/config-nodes/:id *)

\* The request arrives and runs to the end of await storage.getConfigNode(id):
\* the 404 / 403 checks, then updateConfigNodeSchema.parse(req.body)
UpdateStart(i, caller, id, body) ==
    /\ ~Busy(i)
    /\ LET r == Request("update", caller, id, body) IN
       IF ~HasNode(store, id)
       THEN resp' = Reply(r, 404) /\ UNCHANGED reqs
       ELSE IF store[id].userId # caller
       THEN resp' = Reply(r, 403) /\ UNCHANGED reqs
       ELSE Goto(i, [r EXCEPT !.pc = "update"])
    /\ UNCHANGED <<store, nextId>>

\* await storage.updateConfigNode(id, updates)
UpdateWrite(i) ==
    /\ reqs[i].op = "update" /\ reqs[i].pc = "update"
    /\ LET r == reqs[i] IN
       IF ~HasNode(store, r.id)
       THEN /\ UNCHANGED store
            /\ Finish(i, Reply(r, 404))
       ELSE IF FkHolds(UpdateIn(store, r.id, r.body))
       THEN /\ store' = UpdateIn(store, r.id, r.body)
            /\ Finish(i, Reply(r, 200))
       ELSE /\ UNCHANGED store
            /\ Finish(i, Reply(r, 500))
    /\ UNCHANGED nextId

----------------------------------------------------------------------------
(* DELETE /api/config-nodes/:id and DatabaseStorage.deleteConfigNode *)

\* the orders in which a select without ORDER BY may return the rows S
Orders(S) ==
    {q \in [1..Cardinality(S) -> S] : \A a, b \in DOMAIN q : q[a] = q[b] => a = b}

\* a call of deleteConfigNode(id) in progress: rest are the children its for
\* loop has still to visit
Frame(id, rest) == [id |-> id, rest |-> rest]

Top(stack) == stack[Len(stack)]

Pop(stack) == SubSeq(stack, 1, Len(stack) - 1)

\* The request arrives and runs to the end of await storage.getConfigNode(id):
\* the 404 / 403 checks; then deleteConfigNode(id) is called and issues its
\* select. before: the nodes that have id on their path as the request arrives
DeleteStart(i, caller, id) ==
    /\ ~Busy(i)
    /\ LET r == [Request("delete", caller, id, NoBody) EXCEPT
                    !.before = OnPathOf(store, id)] IN
       IF ~HasNode(store, id)
       THEN resp' = Reply(r, 404) /\ UNCHANGED reqs
       ELSE IF store[id].userId # caller
       THEN resp' = Reply(r, 403) /\ UNCHANGED reqs
       ELSE Goto(i, [r EXCEPT !.pc = "select", !.stack = <<Frame(id, <<>>)>>])
    /\ UNCHANGED <<store, nextId>>

\* the select of the children of the innermost call returns; the for loop
\* calls deleteConfigNode on the first child, or, without children, the
\* delete statement is issued
DeleteSelect(i) ==
    /\ reqs[i].op = "delete" /\ reqs[i].pc = "select"
    /\ LET r == reqs[i]
           top == Top(r.stack) IN
       \E children \in Orders(ChildrenOf(store, top.id)) :
          IF children = <<>>
          THEN Goto(i, [r EXCEPT !.pc = "deleteRow"])
          ELSE IF Len(r.stack) < MaxDepth
          THEN Goto(i, [r EXCEPT !.stack =
                   Pop(r.stack) \o <<Frame(top.id, Tail(children)),
                                     Frame(Head(children), <<>>)>>])
          ELSE Goto(i, [r EXCEPT !.pc = "spin"])
    /\ UNCHANGED <<store, nextId>>

\* rows that still reference id: the foreign key (ON DELETE NO ACTION) makes
\* the delete statement throw; a row referencing itself goes with the statement
Referenced(s, id) == ChildrenOf(s, id) \ {id} # {}

\* the delete statement of the innermost call returns; the call returns to
\* the for loop of its caller, or to the route handler
DeleteRow(i) ==
    /\ reqs[i].op = "delete" /\ reqs[i].pc = "deleteRow"
    /\ LET r == reqs[i]
           top == Top(r.stack)
           up == Pop(r.stack) IN
       IF Referenced(store, top.id)
       THEN /\ UNCHANGED store
            /\ Finish(i, Reply(r, 500))
       ELSE /\ store' = DeleteFrom(store, top.id)
            /\ IF up = <<>>
               THEN Finish(i, Reply(r, IF HasNode(store, top.id) THEN 204 ELSE 404))
               ELSE IF Top(up).rest = <<>>
               THEN Goto(i, [r EXCEPT !.stack = up, !.pc = "deleteRow"])
               ELSE Goto(i, [r EXCEPT !.pc = "select", !.stack =
                        Pop(up) \o <<Frame(Top(up).id, Tail(Top(up).rest)),
                                     Frame(Head(Top(up).rest), <<>>)>>])
    /\ UNCHANGED nextId

----------------------------------------------------------------------------
(* GET /api/config-nodes/:id/resolve and /path *)

\* The request arrives and runs to the end of await storage.getConfigNode(id):
\* the 404 / 403 checks; then getConfigNodePath(id) starts with an empty path
\* at currentId = id
ReadStart(i, op, caller, id) ==
    /\ ~Busy(i)
    /\ op \in {"resolve", "path"}
    /\ LET r == Request(op, caller, id, NoBody) IN
       IF ~HasNode(store, id)
       THEN resp' = Reply(r, 404) /\ UNCHANGED reqs
       ELSE IF store[id].userId # caller
       THEN resp' = Reply(r, 403) /\ UNCHANGED reqs
       ELSE Goto(i, [r EXCEPT !.pc = "walk", !.cur = id, !.path = <<>>])
    /\ UNCHANGED <<store, nextId>>

\* a response that fails where the walk stopped at a row that is missing
ReadReplyStrict(r, path) ==
    IF path # <<>> /\ path[1].parentId # NULL THEN Reply(r, 404)
    ELSE [Reply(r, 200) EXCEPT
            !.path = path,
            !.resolved = IF r.op = "resolve" THEN ResolvePath(path) ELSE EmptyMap]

\* the response once getConfigNodePath has returned path
ReadReply(r, path) ==
    [Reply(r, 200) EXCEPT
        !.path = path,
        !.resolved = IF r.op = "resolve" THEN ResolvePath(path) ELSE EmptyMap]

\* one round of the while loop of getConfigNodePath: await getConfigNode(currentId)
ReadWalk(i) ==
    /\ reqs[i].op \in {"resolve", "path"} /\ reqs[i].pc = "walk"
    /\ LET r == reqs[i] IN
       IF ~HasNode(store, r.cur) THEN Finish(i, ReadReply(r, r.path))
       ELSE IF Len(r.path) >= MaxDepth THEN Goto(i, [r EXCEPT !.pc = "spin"])
       ELSE LET node == store[r.cur]
                path == <<node>> \o r.path IN
            IF node.parentId = NULL THEN Finish(i, ReadReply(r, path))
            ELSE Goto(i, [r EXCEPT !.cur = node.parentId, !.path = path])
    /\ UNCHANGED <<store, nextId>>

----------------------------------------------------------------------------
(* GET /api/config-nodes/:id and DatabaseStorage.getConfigNodeWithChildren *)

\* The request arrives and runs to the end of the getConfigNode(id) of
\* getConfigNodeWithChildren: without a row it returns undefined and the route
\* answers 404; with one it goes on to select the children. path holds the
\* row it has read
GetStart(i, caller, id) ==
    /\ ~Busy(i)
    /\ LET r == Request("get", caller, id, NoBody) IN
       IF ~HasNode(store, id)
       THEN resp' = Reply(r, 404) /\ UNCHANGED reqs
       ELSE Goto(i, [r EXCEPT !.pc = "children", !.path = <<store[id]>>])
    /\ UNCHANGED <<store, nextId>>

\* the select of the children returns; only now the route compares the owner
\* of the row with the caller and answers 403 or the node (its children are
\* left out of the answer here)
GetChildren(i) ==
    /\ reqs[i].op = "get" /\ reqs[i].pc = "children"
    /\ LET r == reqs[i] IN
       IF r.path[1].userId # r.caller
       THEN Finish(i, Reply(r, 403))
       ELSE Finish(i, [Reply(r, 200) EXCEPT !.path = r.path])
    /\ UNCHANGED <<store, nextId>>

----------------------------------------------------------------------------
(* The requests callers send *)

Ids == 1..MaxNodes

Step(i) ==
    \/ CreateInsert(i)
    \/ UpdateWrite(i)
    \/ DeleteSelect(i) \/ DeleteRow(i)
    \/ ReadWalk(i)

\* every create in flight can still take an id of 1..N
IdsLeft(N) == nextId + Cardinality({j \in Slots : reqs[j].op = "create"}) <= N

\* requests of callers U with bodies CB (create) and UB (update) and reads RO,
\* at most Cardinality(S) of them in flight and at most N ids taken
NextOver(S, U, CB, UB, RO, N) ==
    \E i \in S :
        \/ \E u \in U, b \in CB : IdsLeft(N) /\ CreateStart(i, u, b)
        \/ \E u \in U, id \in Ids, b \in UB : UpdateStart(i, u, id, b)
        \/ \E u \in U, id \in Ids : DeleteStart(i, u, id)
        \/ \E u \in U, id \in Ids, op \in RO : ReadStart(i, op, u, id)
        \/ Step(i)

\* Two callers build, re-parent, rename and delete trees, one request at a time
CreateBodies ==
    {MkBody({n}, {t}, p, {}, {}) :
        n \in {"n1"}, t \in NodeTypes, p \in Opt(Ids \cup {0})}

UpdateBodies ==
    {MkBody({}, {}, p, {}, {}) : p \in Opt(Ids \cup {NULL})}

Next == NextOver({1}, Users, CreateBodies, UpdateBodies, {"resolve", "path"}, MaxNodes)

Spec == Init /\ [][Next]_vars

\* One caller builds trees whose nodes carry names, defaults and properties,
\* empties the properties of a node or moves it under node 1; MaxMerge bounds
\* the nodes created
MaxMerge == 2

DefaultsMaps == {[k \in Keys |-> "v1"]}

PropertiesMaps == {[k \in {"k"} |-> "v2"], [k \in {NAME} |-> "v2"]}

MergeCreateBodies ==
    {MkBody({n}, {t}, p, m, d) :
        n \in Names, t \in NodeTypes, p \in Opt(Ids),
        m \in Opt(PropertiesMaps), d \in Opt(DefaultsMaps)}

MergeUpdateBodies ==
    {MkBody({}, {}, {}, {EmptyMap}, {}), MkBody({}, {}, {1}, {}, {})}

NextMerge ==
    NextOver({1}, {"u1"}, MergeCreateBodies, MergeUpdateBodies, {"resolve"}, MaxMerge)

SpecMerge == Init /\ [][NextMerge]_vars

\* One caller's requests overlap: creates under any parent, moves of a node
\* under another parent or to the top, deletes and reads; MaxRace bounds the
\* nodes created
MaxRace == 2

RaceCreateBodies == {MkBody({"n1"}, {t}, p, {}, {}) : t \in NodeTypes, p \in Opt(Ids)}

RaceUpdateBodies == {MkBody({}, {}, {p}, {}, {}) : p \in Ids \cup {NULL}}

NextRace ==
    NextOver(Slots, {"u1"}, RaceCreateBodies, RaceUpdateBodies, {"resolve"}, MaxRace)

SpecRace == Init /\ [][NextRace]_vars

\* One caller, two requests in flight: nodes are created at the top or under
\* node 1, renamed, deleted, and their paths and configurations read while a
\* delete is under way; MaxTorn bounds the nodes created
MaxTorn == 2

TornCreateBodies == {MkBody({"n1"}, {t}, p, {}, {}) : t \in NodeTypes, p \in Opt({1})}

TornUpdateBodies == {MkBody({"n2"}, {}, {}, {}, {})}

NextTorn ==
    NextOver({1, 2}, {"u1"}, TornCreateBodies, TornUpdateBodies,
             {"resolve", "path"}, MaxTorn)

SpecTorn == Init /\ [][NextTorn]_vars

\* Two callers create top-level nodes and nodes under node 1, whoever owns it,
\* some with an empty name or an unknown nodeType, and rename, delete and read
\* them, one request at a time; MaxOwner bounds the nodes created
MaxOwner == 2

Names0 == {"", "n1"}

NodeTypes0 == {"territory", "bogus"}

OwnerCreateBodies ==
    {MkBody({n}, {t}, p, {}, {}) : n \in Names0, t \in NodeTypes0, p \in Opt({1})}

OwnerUpdateBodies == {MkBody({"n2"}, {}, {}, {}, {})}

NextOwner ==
    NextOver({1}, Users, OwnerCreateBodies, OwnerUpdateBodies, {"path"}, MaxOwner)

SpecOwner == Init /\ [][NextOwner]_vars

\* Two callers create nodes at the top or under node 1 and get, resolve, walk,
\* rename and delete their own nodes and each other's, one request at a time
GuardCreateBodies == {MkBody({"n1"}, {t}, p, {}, {}) : t \in NodeTypes, p \in Opt({1})}

GuardUpdateBodies == {MkBody({"n2"}, {}, {}, {}, {})}

NextGuard ==
    \/ NextOver({1}, Users, GuardCreateBodies, GuardUpdateBodies,
                {"resolve", "path"}, MaxOwner)
    \/ \E u \in Users, id \in Ids : GetStart(1, u, id)
    \/ GetChildren(1)

SpecGuard == Init /\ [][NextGuard]_vars

\* One caller creates nodes at the top or under node 1, with a name or without
\* one, each with one property and one default, and sends updates that carry
\* any of name, properties and defaults; MaxFields bounds the nodes created
MaxFields == 2

FieldCreateBodies ==
    {MkBody(n, {t}, p, {[k \in {"k"} |-> "v1"]}, {[k \in {"k"} |-> "v1"]}) :
        n \in Opt({"n1"}), t \in NodeTypes, p \in Opt({1})}

FieldUpdateBodies ==
    {MkBody(n, {}, {}, m, d) :
        n \in Opt({"n2"}),
        m \in Opt({EmptyMap, [k \in {NAME} |-> "v2"]}),
        d \in Opt({EmptyMap})}

NextFields ==
    NextOver({1}, {"u1"}, FieldCreateBodies, FieldUpdateBodies, {"resolve"}, MaxFields)

SpecFields == Init /\ [][NextFields]_vars

----------------------------------------------------------------------------
(* The Go backend: handlers.Handler over database.Repository. Its table      *)
(* config_nodes has no owner column and declares parent_id ON DELETE CASCADE; *)
(* the properties live in a table of their own, which the node handlers do   *)
(* not touch. Each handler is followed from its request to its response.     *)

\* NodeTypeTerritory, NodeTypeCenter
GoNodeTypes == {"territory", "center"}

\* a row of the Go table, in the shape of Row
GoRow(id, name, parentId, nodeType) ==
    Row(id, name, parentId, "u1", EmptyMap, EmptyMap, nodeType)

\* c.ShouldBindJSON(&req): name and nodeType are binding:"required", which an
\* absent or empty string fails
GoBindOk(body) ==
    /\ "name" \in DOMAIN body /\ body["name"] # ""
    /\ "nodeType" \in DOMAIN body /\ body["nodeType"] # ""

GoReply(op, id, status) == Reply(Request(op, "u1", id, NoBody), status)

\* Handler.CreateNode: bind, validate nodeType, validate the parent, insert
GoCreateNode(body) ==
    /\ nextId <= MaxNodes
    /\ UNCHANGED reqs
    /\ IF ~GoBindOk(body) \/ body["nodeType"] \notin GoNodeTypes
       THEN /\ resp' = GoReply("create", NULL, 400)
            /\ UNCHANGED <<store, nextId>>
       ELSE IF "parentId" \in DOMAIN body /\ ~HasNode(store, body["parentId"])
       THEN /\ resp' = GoReply("create", NULL, 400)
            /\ UNCHANGED <<store, nextId>>
       ELSE /\ store' = InsertInto(store,
                   GoRow(nextId, body["name"], InsertParent(body), body["nodeType"]))
            /\ nextId' = nextId + 1
            /\ resp' = GoReply("create", nextId, 201)

\* DELETE FROM config_nodes WHERE id = $1, with the rows that reference a
\* deleted row deleted in turn (ON DELETE CASCADE)
GoDeleteFrom(s, id) == [i \in (DOMAIN s) \ OnPathOf(s, id) |-> s[i]]

\* Handler.DeleteNode over Repository.DeleteNode: rowsAffected == 0 is the
\* error "node not found", and every error of the repository is answered 500
GoDeleteNode(id) ==
    /\ store' = GoDeleteFrom(store, id)
    /\ resp' = [GoReply("delete", id, IF HasNode(store, id) THEN 204 ELSE 500)
                 EXCEPT !.before = OnPathOf(store, id)]
    /\ UNCHANGED <<nextId, reqs>>

\* Handler.GetNodePath over Repository.GetNodePath: the walk breaks at a row
\* that is missing and the path built so far is answered 200
GoGetNodePath(id) ==
    /\ resp' = [GoReply("path", id, 200) EXCEPT
                    !.path = getConfigNodePath(store, id).path]
    /\ UNCHANGED <<store, nextId, reqs>>

GoCreateBodies ==
    {MkBody(n, {t}, p, {}, {}) : n \in Opt(Names0), t \in NodeTypes0, p \in Opt(Ids)}

NextGo ==
    \/ \E b \in GoCreateBodies : GoCreateNode(b)
    \/ \E id \in Ids : GoDeleteNode(id)
    \/ \E id \in Ids : GoGetNodePath(id)

SpecGo == Init /\ [][NextGo]_vars

----------------------------------------------------------------------------
(* The Go property table config_properties: one row per (node_id, key) with   *)
(* value TEXT NOT NULL, data_type and an optional default_value. A node's     *)
(* rows are kept in the properties field of its row, key |-> row, so that the *)
(* ON DELETE CASCADE of node_id removes them with the node.                   *)

MaxGo == 2

\* DataTypeString .. DataTypeNull
DataTypes == {"string", "number", "boolean", "object", "array", "null"}

\* the value texts a request may carry: one JSON text of each kind, a text
\* that is not JSON, and the empty text
JsonTexts == {"\"a\"", "1", "true", "null", "{}", "[]"}

Texts == JsonTexts \cup {"a", ""}

\* json.Unmarshal([]byte(text), &value): the kind of the decoded value is
\* the kind of the JSON text; a text that is not JSON is an error
Unmarshal(text) ==
    CASE text = "\"a\"" -> [err |-> FALSE, kind |-> "string",  val |-> "a"]
      [] text = "1"     -> [err |-> FALSE, kind |-> "number",  val |-> "1"]
      [] text = "true"  -> [err |-> FALSE, kind |-> "boolean", val |-> "true"]
      [] text = "null"  -> [err |-> FALSE, kind |-> "null",    val |-> "null"]
      [] text = "{}"    -> [err |-> FALSE, kind |-> "object",  val |-> "{}"]
      [] text = "[]"    -> [err |-> FALSE, kind |-> "array",   val |-> "[]"]
      [] OTHER          -> [err |-> TRUE,  kind |-> "none",    val |-> text]

\* a row of config_properties; defaultValue is a set of no or one text
ConfigProperty(key, value, dataType, defaultValue) ==
    [key |-> key, value |-> value, dataType |-> dataType,
     defaultValue |-> defaultValue]

\* CreatePropertyRequest: key, value and data_type are binding:"required"
CreatePropertyRequest(key, value, dataType, defaultValue) ==
    ConfigProperty(key, value, dataType, defaultValue)

\* Handler.CreateProperty over Repository.CreateProperty: bind, the value
\* must decode as JSON, the data type must be one of the six, the node must
\* exist; then INSERT ... ON CONFLICT (node_id, key) DO UPDATE
GoCreateProperty(nodeId, req) ==
    /\ UNCHANGED <<nextId, reqs>>
    /\ IF req.key = "" \/ req.value = "" \/ req.dataType = ""
       THEN resp' = GoReply("property", nodeId, 400) /\ UNCHANGED store
       ELSE IF Unmarshal(req.value).err
       THEN resp' = GoReply("property", nodeId, 400) /\ UNCHANGED store
       ELSE IF req.dataType \notin DataTypes
       THEN resp' = GoReply("property", nodeId, 400) /\ UNCHANGED store
       ELSE IF ~HasNode(store, nodeId)
       THEN resp' = GoReply("property", nodeId, 404) /\ UNCHANGED store
       ELSE /\ store' = [store EXCEPT ![nodeId].properties =
                            ObjectAssign(@, [k \in {req.key} |-> req])]
            /\ resp' = GoReply("property", nodeId, 201)

\* the inner loop of Repository.ResolveConfiguration over the rows of one
\* node: resolved[prop.Key] is the decoded value, or the text itself where it
\* does not decode; data_type and default_value are not read
GoApplyNode(resolved, node) ==
    ObjectAssign(resolved,
        [k \in DOMAIN node.properties |->
            LET u == Unmarshal(node.properties[k].value) IN
            IF u.err THEN [kind |-> "string", val |-> u.val]
                     ELSE [kind |-> u.kind, val |-> u.val]])

RECURSIVE GoResolveLoop(_, _, _)
GoResolveLoop(resolved, path, from) ==
    IF from > Len(path) THEN resolved
    ELSE GoResolveLoop(GoApplyNode(resolved, path[from]), path, from + 1)

\* Handler.ResolveConfiguration over Repository.ResolveConfiguration: an
\* empty path is the error "node not found", answered 500 as every error is
GoResolveConfiguration(id) ==
    /\ LET path == getConfigNodePath(store, id).path IN
       IF Len(path) = 0
       THEN resp' = GoReply("resolve", id, 500)
       ELSE resp' = [GoReply("resolve", id, 200) EXCEPT
                        !.path = path,
                        !.resolved = GoResolveLoop(EmptyMap, path, 1)]
    /\ UNCHANGED <<store, nextId, reqs>>

GoPropBodies ==
    {MkBody({"n1"}, {"territory"}, p, {}, {}) : p \in Opt({1})}

GoPropRequests ==
    {CreatePropertyRequest("k", v, t, d) :
        v \in Texts, t \in DataTypes \cup {"date"}, d \in Opt({"1"})}

NextGoProps ==
    \/ \E b \in GoPropBodies : nextId <= MaxGo /\ GoCreateNode(b)
    \/ \E id \in 1..MaxGo : GoDeleteNode(id)
    \/ \E id \in 1..MaxGo, req \in GoPropRequests : GoCreateProperty(id, req)
    \/ \E id \in 1..MaxGo : GoResolveConfiguration(id)

SpecGoProps == Init /\ [][NextGoProps]_vars

----------------------------------------------------------------------------
(* The resolver contract, stated on the path of a node *)

\* node carries key k, in its defaults or in its properties
Carries(node, k) == k \in DOMAIN node.defaults \/ k \in DOMAIN node.properties

\* the value node gives k: its property when it has one, else its default
Contribution(node, k) ==
    IF k \in DOMAIN node.properties THEN node.properties[k] ELSE node.defaults[k]

\* the positions of path that carry k
Carriers(path, k) == {j \in 1..Len(path) : Carries(path[j], k)}

\* the deepest position of path that carries k
Deepest(path, k) ==
    CHOOSE j \in Carriers(path, k) : \A h \in Carriers(path, k) : h <= j

\* defaults-then-properties of every node of path, root to leaf, later writes
\* overwriting earlier ones
Fold(path) ==
    [k \in {h \in Keys : Carriers(path, h) # {}} |->
        Contribution(path[Deepest(path, k)], k)]

\* the nodes whose path walk ends
Walkable == {n \in DOMAIN store : getConfigNodePath(store, n).ok}

PathOf(n) == getConfigNodePath(store, n).path

Resolved(n) == resolveConfiguration(store, n)

\* the latest step answered a resolve request for n with 200
ResolveAnswered(n) ==
    /\ resp.op = "resolve" /\ resp.status = 200 /\ resp.id = n
    /\ n \in Walkable
    /\ resp.resolved = Resolved(n)

----------------------------------------------------------------------------
(* The tree invariants *)

\* the node reached from id by following parentId k times
RECURSIVE Up(_, _, _)
Up(s, id, k) ==
    IF k = 0 \/ id = NULL \/ id \notin DOMAIN s THEN id
    ELSE Up(s, s[id].parentId, k - 1)

\* n is its own ancestor
OwnAncestor(s, n) == \E k \in 1..Cardinality(DOMAIN s) : Up(s, n, k) = n

\* C6: for every node n in the store, resolvePath(n) is a non-empty sequence
\* that ends with n, starts at a node without parent or with a parent absent
\* from the store, and links each element to the one before it by parentId.
C6_PathShape ==
    \A n \in DOMAIN store :
        LET w == getConfigNodePath(store, n)
            p == w.path IN
        /\ w.ok
        /\ Len(p) > 0
        /\ p[Len(p)].id = n
        /\ (p[1].parentId = NULL \/ p[1].parentId \notin DOMAIN store)
        /\ \A j \in 2..Len(p) : p[j].parentId = p[j - 1].id

\* C8: after any sequence of completed create, update and delete requests,
\* every node with a non-null parentId references a node of the store.
C8_NoOrphans ==
    \A n \in DOMAIN store :
        store[n].parentId # NULL => store[n].parentId \in DOMAIN store

\* a delete just removed a parent and its child while another child of another
\* parent stays, or the store just refused to point a node at a missing parent
C8_Witness ==
    \/ /\ resp.op = "delete" /\ resp.status = 204
       /\ Cardinality(resp.before) >= 2
       /\ resp.before \cap DOMAIN store = {}
    \/ /\ resp.op = "update" /\ resp.status = 500
       /\ \E n \in DOMAIN store : store[n].parentId \in DOMAIN store \ {n}

\* C9: in every state the API reaches, the parent graph is a forest: no node
\* is reached again by following parentId links upward from it.
C9_Forest == \A n \in DOMAIN store : ~OwnAncestor(store, n)

\* C10: in every state the API reaches, a node with a non-null parentId has
\* the userId of the node its parentId references.
C10_SameOwner ==
    \A n \in DOMAIN store :
        (store[n].parentId # NULL /\ store[n].parentId \in DOMAIN store)
        => store[store[n].parentId].userId = store[n].userId

\* the ids the serial column has handed out that name no row (any more)
Gone == {d \in Ids : d < nextId /\ d \notin DOMAIN store}

\* a request this step has answered on arrival
AnsweredOnArrival(op, id) ==
    /\ reqs' = reqs
    /\ resp'.op = op /\ resp'.id = id

\* a read request this step has let through its 404 / 403 checks
LetThrough(id) ==
    \E i \in Slots :
        /\ reqs[i].op = "idle"
        /\ reqs'[i].op \in {"resolve", "path"} /\ reqs'[i].id = id

\* C7: once a delete of p has answered 204, no node that had p on its path
\* when the delete arrived is in the store, and every path or resolve request
\* that arrives for such a node from then on is answered 404. With one
\* request at a time (Spec) this holds; with two requests in flight
\* (SpecRace) an update that writes a new parentId between the arrival of the
\* delete and its select of the children takes a node out of the subtree, and
\* the delete answers 204 with that node still in the store.
C7_DeleteRemovesSubtree ==
    /\ []((resp.op = "delete" /\ resp.status = 204)
            => resp.before \cap DOMAIN store = {})
    /\ [][\A d \in Gone :
            /\ d \notin DOMAIN store'
            /\ ~LetThrough(d)
            /\ \A op \in {"resolve", "path"} :
                   AnsweredOnArrival(op, d) => resp'.status = 404]_vars

----------------------------------------------------------------------------
(* What an update may change *)

\* C11: from its creation to its deletion a node keeps its id, nodeType,
\* parentId and userId: no step, whatever body an update carries, changes one
\* of them on a node that stays in the store.
C11_FixedAtCreation ==
    [][\A n \in DOMAIN store \cap DOMAIN store' :
          /\ store'[n].id = store[n].id
          /\ store'[n].nodeType = store[n].nodeType
          /\ store'[n].parentId = store[n].parentId
          /\ store'[n].userId = store[n].userId]_vars

----------------------------------------------------------------------------
(* Requests that overlap *)

\* all of S is in the table s, or none of it
AllOrNone(S, s) == S \subseteq DOMAIN s \/ S \cap DOMAIN s = {}

\* this step is a statement of request i that changes the table
WritesBy(i) == reqs'[i] # reqs[i] /\ store' # store

\* C12: a cascading delete of p is atomic: every state a statement of the
\* delete leaves for other requests to see holds p with all the nodes that
\* were below it when the delete arrived, or none of them; and so does the
\* state in which a delete that failed part-way answers with an error.
C12_AtomicDelete ==
    [][\A i \in Slots :
          /\ (reqs[i].op = "delete" /\ WritesBy(i))
                => AllOrNone(reqs[i].before, store')
          /\ (reqs[i].op = "delete" /\ reqs'[i].op = "idle" /\ resp'.status = 500)
                => AllOrNone(reqs[i].before, store')]_vars

\* the create of request r is under parent p
CreateUnder(r, p) == r.op = "create" /\ InsertParent(r.body) = p

\* C13: a create of a child under p that overlaps a delete of p (the create
\* passed its parent check and p was deleted before its insert, or it arrives
\* while a delete of p is in flight) ends in one of two ways: it answers 201
\* and p is in the store, or it answers 404 and no node is added; and no step
\* leaves a node whose parentId names a row that is not in the store.
C13_CreateRacesDelete ==
    [][/\ \A i \in Slots, p \in Ids :
             (/\ CreateUnder(reqs[i], p) /\ reqs[i].pc = "insert"
              /\ reqs'[i].op = "idle")
             => \/ resp'.status = 201 /\ p \in DOMAIN store'
                \/ resp'.status = 404 /\ store' = store
       /\ \A i \in Slots, p \in Ids, b \in RaceCreateBodies :
             (/\ CreateStart(i, "u1", b) /\ InsertParent(b) = p
              /\ \E j \in Slots : reqs[j].op = "delete" /\ reqs[j].id = p
              /\ reqs'[i].op = "idle")
             => \/ resp'.status = 201 /\ p \in DOMAIN store'
                \/ resp'.status = 404 /\ store' = store
       /\ \A n \in DOMAIN store' :
             store'[n].parentId = NULL \/ store'[n].parentId \in DOMAIN store']_vars

----------------------------------------------------------------------------
(* Creates that are refused *)

\* the create of caller u with body b names as parent a node of another owner
ForeignParent(u, b) ==
    /\ ParentChecked(b)
    /\ HasNode(store, InsertParent(b))
    /\ store[InsertParent(b)].userId # u

MissingParent(b) == "parentId" \in DOMAIN b /\ ~HasNode(store, b["parentId"])

\* C15: a create whose parentId names no node of the store is answered
\* NotFound (404) and leaves the store as it was.
C15_MissingParentNotFound ==
    [][\A i \in Slots, u \in Users, b \in CreateBodies :
          (CreateStart(i, u, b) /\ MissingParent(b))
          => (resp'.op = "create" /\ resp'.status = 404 /\ store' = store)]_vars

\* the tier tags of config_nodes.node_type
RecognizedTypes == {"territory", "center", "user"}

\* the body b has an empty name or a nodeType that is no tier tag
BadFields(b) ==
    \/ "name" \in DOMAIN b /\ b["name"] = ""
    \/ "nodeType" \in DOMAIN b /\ b["nodeType"] \notin RecognizedTypes

\* C16: a create whose name is the empty string or whose nodeType is not a
\* recognized tier tag is answered ValidationError (400) and adds no node.
C16_BadFieldsRejected ==
    [][\A i \in Slots, u \in Users, b \in OwnerCreateBodies :
          (CreateStart(i, u, b) /\ BadFields(b))
          => (resp'.op = "create" /\ resp'.status = 400 /\ store' = store)]_vars

----------------------------------------------------------------------------
(* The frame of an update *)

\* C17: an update of n answered 200 leaves each of name, properties and
\* defaults that its body does not carry as it was, makes each one it carries
\* exactly the supplied value (a supplied map, the empty one included,
\* replaces the stored map), and changes no other node.
C17_UpdateFrame ==
    [][\A i \in Slots :
          (/\ reqs[i].op = "update" /\ reqs[i].pc = "update"
           /\ reqs'[i].op = "idle" /\ resp'.status = 200)
          => LET n == reqs[i].id
                 b == reqs[i].body IN
             /\ DOMAIN store' = DOMAIN store
             /\ \A f \in {"name", "properties", "defaults"} :
                    store'[n][f] = IF f \in DOMAIN b THEN b[f] ELSE store[n][f]
             /\ \A m \in DOMAIN store \ {n} : store'[m] = store[m]]_vars

\* an update was just answered 200 on a node whose properties, never empty
\* at creation, are now the empty map while its default and name are as created
C17_Witness ==
    /\ resp.op = "update" /\ resp.status = 200
    /\ HasNode(store, resp.id)
    /\ store[resp.id].properties = EmptyMap
    /\ store[resp.id].defaults = [k \in {"k"} |-> "v1"]
    /\ store[resp.id].name = "n1"
    /\ \E m \in DOMAIN store \ {resp.id} : store[m].properties # EmptyMap

----------------------------------------------------------------------------
(* Requests for a node that is not there *)

\* C18: a delete request for an id that is not in the store when it arrives
\* is answered NotFound (404), never success and never an internal error, and
\* leaves the store as it was.
C18_DeleteMissingNotFound ==
    [][(/\ resp'.op = "delete" /\ reqs' = reqs
        /\ ~HasNode(store, resp'.id))
       => (resp'.status = 404 /\ store' = store)]_vars

Reads == {"resolve", "path"}

\* C19: a path or resolve request is answered NotFound (404) whenever its
\* node is not in the store at the time it is read, on arrival or by the first
\* round of the walk; no such request is answered 200 with an empty path or
\* an empty configuration.
C19_MissingNodeNotFound ==
    [][/\ (resp'.op \in Reads /\ reqs' = reqs /\ ~HasNode(store, resp'.id))
          => resp'.status = 404
       /\ \A i \in Slots :
             (/\ reqs[i].op \in Reads /\ reqs[i].pc = "walk"
              /\ reqs[i].path = <<>> /\ ~HasNode(store, reqs[i].cur)
              /\ reqs'[i] # reqs[i])
             => resp'.status = 404
       /\ (resp'.op \in Reads /\ resp'.status = 200)
          => /\ resp'.path # <<>>
             /\ resp'.op = "resolve" => resp'.resolved # EmptyMap]_vars

----------------------------------------------------------------------------
(* The length of the walk *)

\* C20: the path walk is bounded on every store, one with a parent cycle
\* included: with requests one at a time a walk in progress has read at most
\* as many rows as the store holds, and it never goes on past its bound (it
\* is to stop there with ConflictError, 409).
C20_WalkBounded ==
    \A i \in Slots :
        reqs[i].op \in Reads
        => /\ Len(reqs[i].path) <= Cardinality(DOMAIN store)
           /\ reqs[i].pc # "spin"

----------------------------------------------------------------------------
(* The ownership guard *)

\* node id is in the store and belongs to another caller than u
Foreign(u, id) == HasNode(store, id) /\ store[id].userId # u

\* this step answers 403 and issues no further statement
RejectedAtOnce == resp'.status = 403 /\ UNCHANGED <<store, nextId, reqs>>

\* C21: a get, resolve, path, update or delete request aimed at a node of
\* another owner is answered AccessDenied (403) by the step that looks the
\* node up, before any further read or write of the store, and no step of
\* such a request changes the store.
C21_ForeignRejectedFirst ==
    [][\A i \in Slots, u \in Users, id \in Ids :
          Foreign(u, id) =>
             /\ GetStart(i, u, id) => RejectedAtOnce
             /\ \A op \in Reads : ReadStart(i, op, u, id) => RejectedAtOnce
             /\ \A b \in GuardUpdateBodies :
                    UpdateStart(i, u, id, b) => RejectedAtOnce
             /\ DeleteStart(i, u, id) => RejectedAtOnce]_vars

----------------------------------------------------------------------------
(* Property Value typing through create and resolve *)

\* the row of key k on the deepest node of the path that has one
GoStored(path, k) ==
    LET J == {j \in 1..Len(path) : k \in DOMAIN path[j].properties}
        d == CHOOSE j \in J : \A h \in J : h <= j
    IN path[d].properties[k]

GoResolved == resp.op = "resolve" /\ resp.status = 200

\* C22: a Property Value of any of the six kinds stored under key k, with no
\* deeper override of k, resolves with the kind tag it was stored with and
\* with the value it was stored with; no merge step and no round trip
\* through the store changes the kind.
C22_KindSurvives ==
    GoResolved =>
        \A k \in DOMAIN resp.resolved :
            /\ resp.resolved[k].kind = GoStored(resp.path, k).dataType
            /\ resp.resolved[k].val = Unmarshal(GoStored(resp.path, k).value).val

----------------------------------------------------------------------------
(* The two representations of one logical tree *)

\* the Property Value a text stands for
Decoded(text) == [kind |-> Unmarshal(text).kind, val |-> Unmarshal(text).val]

\* the embedded-map node of a node with property rows: properties holds the
\* value of every row, defaults the default_value of every row that has one
EmbeddedNode(node) ==
    [node EXCEPT
        !.properties = [k \in DOMAIN node.properties |->
                            Decoded(node.properties[k].value)],
        !.defaults = [k \in {h \in DOMAIN node.properties :
                                node.properties[h].defaultValue # {}} |->
                            Decoded(CHOOSE t \in node.properties[k].defaultValue : TRUE)]]

EmbeddedPath(path) == [j \in 1..Len(path) |-> EmbeddedNode(path[j])]

SameMapping(a, b) ==
    /\ DOMAIN a = DOMAIN b
    /\ \A k \in DOMAIN a : a[k] = b[k]

\* C23: the row-per-property resolver and the embedded-map resolver return
\* the same resolved properties mapping for the same logical tree.
C23_SameResolved ==
    GoResolved => SameMapping(resp.resolved, ResolvePath(EmbeddedPath(resp.path)))

----------------------------------------------------------------------------
(* A parent that is missing *)

\* the walk of slot i has read a row and the row its parentId names is absent
AtMissingParent(i) ==
    /\ reqs[i].op \in Reads /\ reqs[i].pc = "walk"
    /\ reqs[i].path # <<>>
    /\ ~HasNode(store, reqs[i].cur)

\* C24: when the upward walk from an existing node n reaches a node whose
\* parentId names an id absent from the store, the walk succeeds and returns
\* the sequence that starts at that node and ends at n; the missing parent
\* raises no error and contributes nothing to the resolved configuration.
C24_MissingParentTruncates ==
    [][\A i \in Slots :
          (AtMissingParent(i) /\ ReadWalk(i)) =>
              /\ resp'.status = 200
              /\ resp'.path = reqs[i].path
              /\ resp'.path[1].parentId = reqs[i].cur
              /\ resp'.path[Len(resp'.path)].id = reqs[i].id
              /\ reqs[i].op = "resolve" =>
                    resp'.resolved = ResolveLoop(EmptyMap, reqs[i].path, 1)]_vars

C24_Witness ==
    /\ resp.op \in Reads /\ resp.status = 200
    /\ resp.path # <<>>
    /\ resp.path[1].parentId # NULL
    /\ ~HasNode(store, resp.path[1].parentId)
    /\ resp.path[Len(resp.path)].id = resp.id

----------------------------------------------------------------------------
(* Reads that run while a delete is under way *)

\* a path of a request for node id that starts at a top-level node, follows
\* the parentId of each row and ends at the node
CompletePath(path, id) ==
    /\ path # <<>>
    /\ path[1].parentId = NULL
    /\ \A j \in 2..Len(path) : path[j].parentId = path[j - 1].id
    /\ path[Len(path)].id = id

\* C25: a resolve interleaved with a cascading delete of an ancestor answers
\* NotFound or the configuration of a complete root-to-n path; it never
\* answers a configuration computed from a path the delete has cut short.
C25_NoTornPath ==
    (resp.op = "resolve" /\ resp.status = 200 /\ resp.path # <<>>) =>
        CompletePath(resp.path, resp.id)

----------------------------------------------------------------------------
(* Termination of the recursive delete *)

\* the calls of deleteConfigNode in progress in slot i are on different nodes
VisitsOnce(i) ==
    \A a, b \in 1..Len(reqs[i].stack) :
        reqs[i].stack[a].id = reqs[i].stack[b].id => a = b

\* C26: in every store state reachable through create, update and delete
\* requests, deleteConfigNode(id) terminates: its recursion over the children
\* visits each node at most once and in the end deletes the node itself.
C26_DeleteTerminates ==
    \A i \in Slots :
        reqs[i].op = "delete" => (VisitsOnce(i) /\ reqs[i].pc # "spin")

----------------------------------------------------------------------------
(* Isolation of the callers *)

\* the rows this step removes
Removed == {d \in DOMAIN store : d \notin DOMAIN store'}

\* C27: in every reachable store state a delete request issued by caller A
\* removes only nodes owned by A: no sequence of requests lets the delete of
\* one caller remove a node owned by another caller.
C27_DeleteOwnOnly ==
    [][\A i \in Slots :
          DeleteRow(i) => \A d \in Removed : store[d].userId = reqs[i].caller]_vars

\* C28: in every reachable store state the path and the resolved
\* configuration returned to caller A for a node A owns are made of nodes
\* owned by A only, so that the nodes of other callers do not show in them.
C28_OwnNodesOnly ==
    (resp.op \in Reads /\ resp.status = 200) =>
        \A j \in 1..Len(resp.path) : resp.path[j].userId = resp.caller

----------------------------------------------------------------------------
(* What an update of one node changes *)

\* the nodes that do not have node n on their path
Outside(s, n) == (DOMAIN s) \ OnPathOf(s, n)

\* C29: an update of the name, defaults or properties of node n changes
\* resolve(m) only for the nodes m that have n on their path: for every node
\* m that is neither n nor a descendant of n, the path and the resolved
\* configuration of m are the same before and after the update.
C29_UpdateLocal ==
    [][\A i \in Slots :
          (UpdateWrite(i) /\ "parentId" \notin DOMAIN reqs[i].body) =>
              \A m \in Outside(store, reqs[i].id) :
                  /\ m \in DOMAIN store'
                  /\ getConfigNodePath(store', m) = getConfigNodePath(store, m)
                  /\ resolveConfiguration(store', m) = resolveConfiguration(store, m)]_vars

C29_Witness ==
    /\ resp.op = "update" /\ resp.status = 200
    /\ HasNode(store, resp.id) /\ store[resp.id].name = "n2"
    /\ \E m \in Outside(store, resp.id) : store[m].name # "n2"

----------------------------------------------------------------------------
(* The key $NAME of a resolved configuration *)

\* node stores a value under $NAME in its defaults or in its properties
StoresName(node) == NAME \in DOMAIN node.defaults \/ NAME \in DOMAIN node.properties

\* C30: for every existing node n the mapping resolveConfiguration(n) returns
\* has the key $NAME equal to the name of n itself, whatever value any node
\* on the path stores under $NAME in its defaults or properties.
C30_NameIsOwnName ==
    \A n \in DOMAIN store :
        getConfigNodePath(store, n).ok =>
            /\ NAME \in DOMAIN resolveConfiguration(store, n)
            /\ resolveConfiguration(store, n)[NAME] = store[n].name

C30_Witness ==
    /\ resp.op = "resolve" /\ resp.status = 200
    /\ HasNode(store, resp.id)
    /\ Len(resp.path) = 2
    /\ \A j \in 1..2 : StoresName(resp.path[j])
    /\ resp.path[1].name # resp.path[2].name
    /\ resp.resolved = resolveConfiguration(store, resp.id)
    /\ resp.resolved[NAME] = store[resp.id].name

====
